---- MODULE Spec2Model ----
(***************************************************************************)
(* atomKV: a Bitcask-style key-value store (src/bitcask.go).               *)
(*                                                                         *)
(* The model keeps the log file as a sequence of bytes, the engine's file  *)
(* handle (open flag, cursor, append flag), the in-memory index            *)
(* key -> offset, the RWMutex and, for every goroutine, the statement of   *)
(* the engine method it is executing together with that call's locals.     *)
(* Every method is cut at its lock calls and at its file-system calls, so  *)
(* that interleavings of goroutines are interleavings of those statements. *)
(***************************************************************************)
EXTENDS Integers, Sequences, FiniteSets, TLC

VARIABLES
    files,       \* path -> content (bytes) of the file at that path
    exists,      \* the paths that currently name a file
    file,        \* Bitcask.file : [open, pos, append], always the file at LogPath
    index,       \* Bitcask.index : key -> offset
    mu,          \* Bitcask.mu : [writer, readers]
    pc,          \* goroutine -> statement it is at
    arg,         \* goroutine -> [key, value] of the current call
    loc,         \* goroutine -> locals [offset, keySize, valueSize]
    ret,         \* goroutine -> what the current call returns [err, val, keys]
    cNew,        \* goroutine -> Compact's local newIndex
    cTodo,       \* goroutine -> keys Compact's range loop has yet to visit
    cOld,        \* history: the log content when this Compact started
    cFail,       \* history: a step of this Compact before the rename failed
    latest,      \* history: key -> value of the last Set that returned nil on this engine
    loaded,      \* history: Load has returned nil on this engine
    closed,      \* history: Close has returned on this engine
    overlapped,  \* history: the call overlapped a Compact (Get) or a Set (Set) of another
    faults       \* number of injected I/O failures and crashes so far

vars == <<files, exists, file, index, mu, pc, arg, loc, ret, cNew, cTodo, cOld,
          cFail, latest, loaded, closed, overlapped, faults>>

(***************************************************************************)
(* Bounds of the model.                                                    *)
(***************************************************************************)
MaxRecords == 2      \* Set is not called once the log holds this many records
MaxFaults == 1       \* injected I/O failures and crashes per behaviour
MaxAlloc == 24       \* largest buffer a step allocates from a decoded length

Threads == {"g1", "g2"}
None == "none"

K0 == << >>
K1 == <<107>>
AllKeys == {K0, K1}

V0 == << >>
V2 == <<98, 99>>
AllValues == {V0, V2}
NoVal == <<-1>>

Timestamps == {1}

LogPath == "atomkv.db"
TempPath == "atomkv.db.tmp"
Paths == {LogPath, TempPath}

HeaderSize == 16

(***************************************************************************)
(* Record codec: encoding/binary, little endian.                           *)
(***************************************************************************)
Pow256(i) == IF i = 0 THEN 1 ELSE IF i = 1 THEN 256 ELSE IF i = 2 THEN 65536 ELSE 16777216

\* binary.Write of an unsigned 32-bit integer
LE32(n) == [i \in 1..4 |-> (n \div Pow256(i - 1)) % 256]

\* binary.Write of a (small, non-negative) 64-bit integer
LE64(n) == [i \in 1..8 |-> IF i <= 4 THEN (n \div Pow256(i - 1)) % 256 ELSE 0]

\* binary.LittleEndian.Uint32
Uint32(bs) == bs[1] + 256 * bs[2] + 65536 * bs[3] + 16777216 * bs[4]

Zeros(n) == [i \in 1..n |-> 0]

\* the buffer Set builds before its single Write
EncodeRecord(ts, key, value) ==
    LE64(ts) \o LE32(Len(key)) \o LE32(Len(value)) \o key \o value

RecordSize(key, value) == HeaderSize + Len(key) + Len(value)

(***************************************************************************)
(* File primitives.                                                        *)
(***************************************************************************)
Min(a, b) == IF a < b THEN a ELSE b

\* bytes of data from position pos (0-based) to the end of the file
Avail(data, pos) == IF pos >= Len(data) THEN 0 ELSE Len(data) - pos

\* io.ReadFull / File.ReadAt of n bytes at pos: the bytes it got and its error
ReadFull(data, pos, n) ==
    LET got == Min(n, Avail(data, pos)) IN
    [bytes |-> SubSeq(data, pos + 1, pos + got),
     n     |-> got,
     err   |-> IF got = n THEN "nil"
               ELSE IF got = 0 THEN "EOF" ELSE "ErrUnexpectedEOF"]

\* File.Write of buf with the cursor at pos (at the end with O_APPEND)
WriteAt(data, pos, buf) ==
    LET pre  == IF pos <= Len(data) THEN SubSeq(data, 1, pos)
                ELSE data \o Zeros(pos - Len(data))
        post == IF pos + Len(buf) < Len(data)
                THEN SubSeq(data, pos + Len(buf) + 1, Len(data)) ELSE << >>
    IN pre \o buf \o post

EmptyIndex == [k \in {} |-> 0]

\* a map update that keeps the entry a key already has
IndexPutIfAbsent(idx, key, offset) ==
    [k \in DOMAIN idx \cup {key} |-> IF k \in DOMAIN idx THEN idx[k] ELSE offset]

\* index[key] = offset
IndexPut(idx, key, offset) ==
    [k \in DOMAIN idx \cup {key} |-> IF k = key THEN offset ELSE idx[k]]

NoArg == [key |-> K0, value |-> V0]
NoRet == [err |-> "nil", val |-> << >>, keys |-> {}]
Err(e) == [err |-> e, val |-> << >>, keys |-> {}]
\* the locals of a call; before and wasLoaded are history: the index and the loaded
\* flag as they were when the call took the write lock
NoLoc == [offset |-> 0, keySize |-> 0, valueSize |-> 0,
          before |-> EmptyIndex, wasLoaded |-> FALSE]

(***************************************************************************)
(* Open: a fresh store, the log file just created and empty.               *)
(***************************************************************************)
Init ==
    /\ files = [p \in Paths |-> << >>]
    /\ exists = {LogPath}
    /\ file = [open |-> TRUE, pos |-> 0, append |-> FALSE]
    /\ index = EmptyIndex
    /\ mu = [writer |-> None, readers |-> {}]
    /\ pc = [t \in Threads |-> "idle"]
    /\ arg = [t \in Threads |-> NoArg]
    /\ loc = [t \in Threads |-> NoLoc]
    /\ ret = [t \in Threads |-> NoRet]
    /\ cNew = [t \in Threads |-> EmptyIndex]
    /\ cTodo = [t \in Threads |-> {}]
    /\ cOld = [t \in Threads |-> << >>]
    /\ cFail = [t \in Threads |-> FALSE]
    /\ latest = [k \in AllKeys |-> NoVal]
    /\ loaded = FALSE
    /\ closed = FALSE
    /\ overlapped = [t \in Threads |-> FALSE]
    /\ faults = 0

log == files[LogPath]

SetPcs == {"Set_Lock", "Set_Seek", "Set_Write", "Set_Index", "Set_Ret"}
GetPcs == {"Get_RLock", "Get_Lookup", "Get_Header", "Get_Value", "Get_Ret"}
CompactCritical == {"Compact_Create", "Compact_Copy", "Compact_Rename",
                    "Compact_Reopen", "Compact_Ret"}

\* number of records of a log of complete records with payloads under 16 bytes
Records(data) == Len(data) \div HeaderSize

(***************************************************************************)
(* Calls: a goroutine enters a method of the engine.                       *)
(***************************************************************************)
\* a call waits at its Lock or RLock; its arguments play no part until it holds the
\* mutex, so the model draws them when the mutex is acquired
Call(t, first) ==
    /\ pc[t] = "idle"
    /\ pc' = [pc EXCEPT ![t] = first]
    /\ overlapped' = [overlapped EXCEPT ![t] =
                        \/ first = "Get_RLock" /\ \E u \in Threads : pc[u] \in CompactCritical
                        \/ first = "Set_Lock" /\ \E u \in Threads : pc[u] \in SetPcs]
    /\ UNCHANGED <<files, exists, file, index, mu, arg, loc, ret, cNew, cTodo, cOld, cFail,
                   latest, loaded, closed, faults>>

CallSet(t) ==
    /\ Records(log) + Cardinality({u \in Threads : pc[u] \in SetPcs}) < MaxRecords
    /\ Call(t, "Set_Lock")
CallGet(t) == Call(t, "Get_RLock")
CallKeys(t) == Call(t, "Keys_RLock")
CallLoad(t) == Call(t, "Load_Lock")
CallCompact(t) == Call(t, "Compact_Lock")
CallClose(t) == Call(t, "Close_Lock")

(***************************************************************************)
(* sync.RWMutex                                                            *)
(***************************************************************************)
\* a Lock that does not wait for the readers to leave
\* a mutex that never makes a writer wait
CanLockAlways(t) == TRUE

CanLockNoReaders(t) == mu.writer = None
\* an RLock that does not wait for the writer to leave
CanRLockNoWriter(t) == TRUE

CanLock(t) == mu.writer = None /\ mu.readers = {}
CanRLock(t) == mu.writer = None

AfterLock(p) ==
    CASE p = "Set_Lock" -> "Set_Seek"
      [] p = "Load_Lock" -> "Load_Seek"
      [] p = "Compact_Lock" -> "Compact_Create"
      [] p = "Close_Lock" -> "Close_File"
      [] p = "Get_RLock" -> "Get_Lookup"
      [] p = "Keys_RLock" -> "Keys_Read"

\* b.mu.Lock() of Set(key, value), Load(), Compact() and Close()
Lock(t, k, v) ==
    /\ pc[t] \in {"Set_Lock", "Load_Lock", "Compact_Lock", "Close_Lock"}
    /\ pc[t] # "Set_Lock" => (k = K0 /\ v = V0)
    /\ CanLock(t)
    /\ mu' = [mu EXCEPT !.writer = t]
    /\ pc' = [pc EXCEPT ![t] = AfterLock(pc[t])]
    /\ arg' = [arg EXCEPT ![t] = [key |-> k, value |-> v]]
    /\ overlapped' = [u \in Threads |->
                        IF /\ u # t
                           /\ \/ pc[t] = "Compact_Lock" /\ pc[u] \in GetPcs
                              \/ pc[t] = "Set_Lock" /\ pc[u] \in SetPcs
                        THEN TRUE ELSE overlapped[u]]
    /\ loc' = [loc EXCEPT ![t].before = index, ![t].wasLoaded = loaded]
    /\ UNCHANGED <<files, exists, file, index, ret, cNew, cTodo, cOld, cFail,
                   latest, loaded, closed, faults>>

\* b.mu.RLock() of Get(key) and Keys()
RLock(t, k) ==
    /\ pc[t] \in {"Get_RLock", "Keys_RLock"}
    /\ pc[t] # "Get_RLock" => k = K0
    /\ CanRLock(t)
    /\ mu' = [mu EXCEPT !.readers = @ \cup {t}]
    /\ pc' = [pc EXCEPT ![t] = AfterLock(pc[t])]
    /\ arg' = [arg EXCEPT ![t] = [key |-> k, value |-> V0]]
    /\ UNCHANGED <<files, exists, file, index, loc, ret, cNew, cTodo, cOld, cFail,
                   latest, loaded, closed, overlapped, faults>>

\* the call's locals go out of scope when it returns
Return(t) ==
    /\ pc' = [pc EXCEPT ![t] = "idle"]
    /\ arg' = [arg EXCEPT ![t] = NoArg]
    /\ loc' = [loc EXCEPT ![t] = NoLoc]
    /\ ret' = [ret EXCEPT ![t] = NoRet]
    /\ cNew' = [cNew EXCEPT ![t] = EmptyIndex]
    /\ cTodo' = [cTodo EXCEPT ![t] = {}]
    /\ cOld' = [cOld EXCEPT ![t] = << >>]
    /\ cFail' = [cFail EXCEPT ![t] = FALSE]
    /\ overlapped' = [overlapped EXCEPT ![t] = FALSE]

\* defer b.mu.Unlock()
Unlock(t) ==
    /\ pc[t] \in {"Set_Ret", "Load_Ret", "Compact_Ret", "Close_Ret"}
    /\ mu' = [mu EXCEPT !.writer = IF @ = t THEN None ELSE @]
    /\ Return(t)
    /\ UNCHANGED <<files, exists, file, index, latest, loaded, closed,
                   faults>>

\* defer b.mu.RUnlock()
RUnlock(t) ==
    /\ pc[t] \in {"Get_Ret", "Keys_Ret"}
    /\ mu' = [mu EXCEPT !.readers = @ \ {t}]
    /\ Return(t)
    /\ UNCHANGED <<files, exists, file, index, latest, loaded, closed,
                   faults>>

(***************************************************************************)
(* Set                                                                     *)
(***************************************************************************)
\* an I/O step on the open handle may fail (ok = FALSE) while the fault budget allows
MayFail(ok) == ok \/ (file.open /\ faults < MaxFaults)
Count(ok) == IF ok \/ ~file.open THEN faults ELSE faults + 1

\* the cursor where it is, instead of the end of the file
SeekCur == file.pos

\* what b.file.Seek(0, io.SeekEnd) returns: the size of the file
SeekEnd == Len(log)

\* offset, err := b.file.Seek(0, io.SeekEnd)
SetSeek(t, ok) ==
    /\ pc[t] = "Set_Seek"
    /\ MayFail(ok)
    /\ IF ~file.open \/ ~ok
       THEN /\ ret' = [ret EXCEPT ![t] = Err(IF file.open THEN "EIO" ELSE "ErrClosed")]
            /\ pc' = [pc EXCEPT ![t] = "Set_Ret"]
            /\ UNCHANGED <<file, loc>>
       ELSE /\ loc' = [loc EXCEPT ![t].offset = SeekEnd]
            /\ file' = [file EXCEPT !.pos = SeekEnd]
            /\ pc' = [pc EXCEPT ![t] = "Set_Write"]
            /\ UNCHANGED ret
    /\ faults' = Count(ok)
    /\ UNCHANGED <<files, exists, index, mu, arg, cNew, cTodo, cOld, cFail,
                   latest, loaded, closed, overlapped>>

\* where a Write on the handle lands: the cursor, or the end of file with O_APPEND
WritePos == IF file.append THEN Len(log) ELSE file.pos

\* the prefixes of a record that an interrupted write leaves behind: a part of the
\* header, the bare header, all but the last byte
TornCuts(buf) == {n \in {10, HeaderSize, Len(buf) - 1} : n < Len(buf)}

\* an engine that stores the offset before it writes the record
IndexPutEarly(idx, key, offset) == IndexPut(idx, key, offset)

\* the index while the record is being written: b.index[key] = offset comes after
\* the write and its error return, so the write finds and leaves the index as it is
IndexAtWrite(idx, key, offset) == idx

\* b.file.Write(buf.Bytes()): the first n bytes of the record reach the file
SetWrite(t, ts, n) ==
    LET buf == EncodeRecord(ts, arg[t].key, arg[t].value) IN
    /\ pc[t] = "Set_Write"
    /\ IF n = Len(buf) THEN TRUE
       ELSE file.open /\ faults < MaxFaults /\ n \in TornCuts(buf) \cup {0}
    /\ IF ~file.open
       THEN /\ ret' = [ret EXCEPT ![t] = Err("ErrClosed")]
            /\ pc' = [pc EXCEPT ![t] = "Set_Ret"]
            /\ UNCHANGED <<files, file>>
       ELSE /\ files' = [files EXCEPT ![LogPath] = WriteAt(log, WritePos, SubSeq(buf, 1, n))]
            /\ file' = [file EXCEPT !.pos = WritePos + n]
            /\ IF n = Len(buf)
               THEN pc' = [pc EXCEPT ![t] = "Set_Index"] /\ UNCHANGED ret
               ELSE /\ pc' = [pc EXCEPT ![t] = "Set_Ret"]
                    /\ ret' = [ret EXCEPT ![t] = Err("EIO")]
    /\ index' = IndexAtWrite(index, arg[t].key, loc[t].offset)
    /\ faults' = Count(n = Len(buf))
    /\ UNCHANGED <<exists, mu, arg, loc, cNew, cTodo, cOld, cFail,
                   latest, loaded, closed, overlapped>>

\* b.index[key] = offset; return nil
SetIndex(t) ==
    /\ pc[t] = "Set_Index"
    /\ index' = IndexPut(index, arg[t].key, loc[t].offset)
    /\ latest' = [latest EXCEPT ![arg[t].key] = arg[t].value]
    /\ ret' = [ret EXCEPT ![t] = NoRet]
    /\ pc' = [pc EXCEPT ![t] = "Set_Ret"]
    /\ UNCHANGED <<files, exists, file, mu, arg, loc, cNew, cTodo, cOld, cFail,
                   loaded, closed, overlapped, faults>>

(***************************************************************************)
(* Get                                                                     *)
(***************************************************************************)
\* File.ReadAt of n bytes at offset o on the handle: pread, no cursor involved
ReadAt(o, n) ==
    IF n = 0 THEN [bytes |-> << >>, err |-> "nil"]
    ELSE IF ~file.open THEN [bytes |-> << >>, err |-> "ErrClosed"]
    ELSE LET r == ReadFull(log, o, n) IN
         [bytes |-> r.bytes, err |-> IF r.err = "nil" THEN "nil" ELSE "EOF"]

\* a Get that does not skip the key bytes
ValueOffsetNoKey(offset, keySize) == offset + HeaderSize

\* valueOffset := offset + 16 + int64(keySize)
ValueOffset(offset, keySize) == offset + HeaderSize + keySize

\* an engine that reports no error for a key it does not have
NoError == "nil"

\* var ErrKeyNotFound = errors.New("key not found")
ErrKeyNotFound == "ErrKeyNotFound"

\* what Get(key) returns in the current state
GetResult(key) ==
    IF key \notin DOMAIN index THEN Err(ErrKeyNotFound)
    ELSE LET h == ReadAt(index[key], HeaderSize) IN
         IF h.err # "nil" THEN Err(h.err)
         ELSE LET v == ReadAt(ValueOffset(index[key], Uint32(SubSeq(h.bytes, 9, 12))),
                              Uint32(SubSeq(h.bytes, 13, 16)))
              IN IF v.err = "nil" THEN [err |-> "nil", val |-> v.bytes, keys |-> {}]
                 ELSE Err(v.err)

\* offset, exists := b.index[key]
GetLookup(t) ==
    /\ pc[t] = "Get_Lookup"
    /\ IF arg[t].key \in DOMAIN index
       THEN /\ loc' = [loc EXCEPT ![t].offset = index[arg[t].key]]
            /\ pc' = [pc EXCEPT ![t] = "Get_Header"]
            /\ UNCHANGED ret
       ELSE /\ ret' = [ret EXCEPT ![t] = Err(ErrKeyNotFound)]
            /\ pc' = [pc EXCEPT ![t] = "Get_Ret"]
            /\ UNCHANGED loc
    /\ UNCHANGED <<files, exists, file, index, mu, arg, cNew, cTodo, cOld, cFail,
                   latest, loaded, closed, overlapped, faults>>

\* b.file.ReadAt(header, offset); keySize, valueSize from header[8:16]
GetHeader(t) ==
    LET r == ReadAt(loc[t].offset, HeaderSize) IN
    /\ pc[t] = "Get_Header"
    /\ IF r.err = "nil"
       THEN /\ loc' = [loc EXCEPT ![t].keySize = Uint32(SubSeq(r.bytes, 9, 12)),
                                  ![t].valueSize = Uint32(SubSeq(r.bytes, 13, 16))]
            /\ pc' = [pc EXCEPT ![t] = "Get_Value"]
            /\ UNCHANGED ret
       ELSE /\ ret' = [ret EXCEPT ![t] = Err(r.err)]
            /\ pc' = [pc EXCEPT ![t] = "Get_Ret"]
            /\ UNCHANGED loc
    /\ UNCHANGED <<files, exists, file, index, mu, arg, cNew, cTodo, cOld, cFail,
                   latest, loaded, closed, overlapped, faults>>

\* b.file.ReadAt(valueBytes, offset + 16 + keySize); return string(valueBytes), nil
GetValue(t) ==
    LET r == ReadAt(ValueOffset(loc[t].offset, loc[t].keySize), loc[t].valueSize) IN
    /\ pc[t] = "Get_Value"
    /\ ret' = [ret EXCEPT ![t] = IF r.err = "nil"
                                 THEN [err |-> "nil", val |-> r.bytes, keys |-> {}]
                                 ELSE Err(r.err)]
    /\ pc' = [pc EXCEPT ![t] = "Get_Ret"]
    /\ UNCHANGED <<files, exists, file, index, mu, arg, loc, cNew, cTodo, cOld, cFail,
                   latest, loaded, closed, overlapped, faults>>

(***************************************************************************)
(* Keys, Close                                                             *)
(***************************************************************************)
\* for k := range b.index { keys = append(keys, k) }
KeysRead(t) ==
    /\ pc[t] = "Keys_Read"
    /\ ret' = [ret EXCEPT ![t] = [err |-> "nil", val |-> << >>, keys |-> DOMAIN index]]
    /\ pc' = [pc EXCEPT ![t] = "Keys_Ret"]
    /\ UNCHANGED <<files, exists, file, index, mu, arg, loc, cNew, cTodo, cOld, cFail,
                   latest, loaded, closed, overlapped, faults>>

\* return b.file.Close()
CloseFile(t) ==
    /\ pc[t] = "Close_File"
    /\ file' = [file EXCEPT !.open = FALSE]
    /\ ret' = [ret EXCEPT ![t] = IF file.open THEN NoRet ELSE Err("ErrClosed")]
    /\ closed' = TRUE
    /\ pc' = [pc EXCEPT ![t] = "Close_Ret"]
    /\ UNCHANGED <<files, exists, index, mu, arg, loc, cNew, cTodo, cOld, cFail,
                   latest, loaded, overlapped, faults>>

(***************************************************************************)
(* Load                                                                    *)
(***************************************************************************)
\* the cursor left where the last operation put it
ScanFromCursor == file.pos

\* b.file.Seek(0, io.SeekStart): the offset Load's scan starts at
ScanStart == 0

LoadSeek(t) ==
    /\ pc[t] = "Load_Seek"
    /\ IF file.open
       THEN /\ file' = [file EXCEPT !.pos = ScanStart]
            /\ pc' = [pc EXCEPT ![t] = "Load_Scan"]
            /\ UNCHANGED ret
       ELSE /\ ret' = [ret EXCEPT ![t] = Err("ErrClosed")]
            /\ pc' = [pc EXCEPT ![t] = "Load_Ret"]
            /\ UNCHANGED file
    /\ UNCHANGED <<files, exists, index, mu, arg, loc, cNew, cTodo, cOld, cFail,
                   latest, loaded, closed, overlapped, faults>>

\* a scan that never meets the end of the file
LoadSpin(data, p) == [err |-> "nil", key |-> K0, pos |-> p]

\* one pass of Load's loop over data with the cursor at p: what it read of the
\* record at p, the error it stops with ("break" ends the loop), the cursor after
LoadStep(data, p) ==
    LET a  == Avail(data, p)
        ks == Uint32(SubSeq(data, p + 9, p + 12))
        vs == Uint32(SubSeq(data, p + 13, p + 16))
    IN
    IF a = 0 THEN [err |-> "break", key |-> << >>, pos |-> p]
    ELSE IF a < 8 THEN [err |-> "ErrUnexpectedEOF", key |-> << >>, pos |-> Len(data)]
    ELSE IF a = 8 \/ a = 12 THEN [err |-> "EOF", key |-> << >>, pos |-> Len(data)]
    ELSE IF a < HeaderSize THEN [err |-> "ErrUnexpectedEOF", key |-> << >>, pos |-> Len(data)]
    ELSE IF a - HeaderSize < ks
         THEN [err |-> IF a = HeaderSize THEN "EOF" ELSE "ErrUnexpectedEOF",
               key |-> << >>, pos |-> Len(data)]
    ELSE [err |-> "nil",
          key |-> SubSeq(data, p + HeaderSize + 1, p + HeaderSize + ks),
          pos |-> p + HeaderSize + ks + vs]

\* the body of Load's for loop, once
LoadScan(t) ==
    LET r == LoadStep(log, file.pos) IN
    /\ pc[t] = "Load_Scan"
    /\ IF ~file.open
       THEN /\ ret' = [ret EXCEPT ![t] = Err("ErrClosed")]
            /\ pc' = [pc EXCEPT ![t] = "Load_Ret"]
            /\ UNCHANGED <<file, index, loaded>>
       ELSE /\ file' = [file EXCEPT !.pos = r.pos]
            /\ IF r.err = "nil"
               THEN /\ index' = IndexPut(index, r.key, file.pos)
                    /\ UNCHANGED <<pc, ret, loaded>>
               ELSE /\ pc' = [pc EXCEPT ![t] = "Load_Ret"]
                    /\ ret' = [ret EXCEPT ![t] = IF r.err = "break" THEN NoRet ELSE Err(r.err)]
                    /\ loaded' = (loaded \/ r.err = "break")
                    /\ UNCHANGED index
    /\ UNCHANGED <<files, exists, mu, arg, loc, cNew, cTodo, cOld, cFail,
                   latest, closed, overlapped, faults>>

(***************************************************************************)
(* Compact                                                                 *)
(***************************************************************************)
\* tempFile, err := os.OpenFile(tempPath, O_CREATE|O_RDWR|O_TRUNC); newIndex := make(...)
CompactCreate(t, ok) ==
    /\ pc[t] = "Compact_Create"
    /\ ok \/ faults < MaxFaults
    /\ IF ok
       THEN /\ files' = [files EXCEPT ![TempPath] = << >>]
            /\ exists' = exists \cup {TempPath}
            /\ cNew' = [cNew EXCEPT ![t] = EmptyIndex]
            /\ cTodo' = [cTodo EXCEPT ![t] = DOMAIN index]
            /\ cOld' = [cOld EXCEPT ![t] = log]
            /\ pc' = [pc EXCEPT ![t] = "Compact_Copy"]
            /\ UNCHANGED <<ret, cFail>>
       ELSE /\ ret' = [ret EXCEPT ![t] = Err("EIO")]
            /\ cFail' = [cFail EXCEPT ![t] = TRUE]
            /\ cOld' = [cOld EXCEPT ![t] = log]
            /\ pc' = [pc EXCEPT ![t] = "Compact_Ret"]
            /\ UNCHANGED <<files, exists, cNew, cTodo>>
    /\ faults' = IF ok THEN faults ELSE faults + 1
    /\ UNCHANGED <<file, index, mu, arg, loc, latest, loaded, closed,
                   overlapped>>

\* binary.Read of a w-byte field at the cursor, its error dropped: the bytes of the
\* field (zero when the read fell short) and the bytes the cursor moved
ReadField(data, p, w, ok) ==
    LET r == ReadFull(data, p, w) IN
    IF ~ok THEN [bytes |-> Zeros(w), n |-> 0, short |-> TRUE]
    ELSE [bytes |-> IF r.err = "nil" THEN r.bytes ELSE Zeros(w),
          n |-> r.n, short |-> r.err # "nil"]

\* what one pass of Compact's loop reads of the record at oldOffset; no error of
\* these reads is looked at
CopyRead(data, oldOffset, readOK) ==
    LET a  == IF readOK THEN Avail(data, oldOffset) ELSE 0
        ts == ReadField(data, oldOffset, 8, readOK)
        ks == ReadField(data, oldOffset + Min(8, a), 4, readOK)
        vs == ReadField(data, oldOffset + Min(12, a), 4, readOK)
        keySize == Uint32(ks.bytes)
        valueSize == Uint32(vs.bytes)
        vpos == oldOffset + Min(HeaderSize, a) + keySize
        got == IF readOK THEN Min(valueSize, Avail(data, vpos)) ELSE 0
    IN [timestamp |-> ts.bytes,
        valueSize |-> valueSize,
        sizeBytes |-> vs.bytes,
        value |-> SubSeq(data, vpos + 1, vpos + got),
        pos |-> vpos + got,
        short |-> a < HeaderSize \/ got < valueSize]

\* a copy that leaves the value bytes out
CopyRecordNoValue(c, key) ==
    c.timestamp \o LE32(Len(key)) \o c.sizeBytes \o key

\* the record Compact writes to the temp file: valueBytes is make([]byte, valueSize),
\* filled as far as the read got
CopyRecord(c, key) ==
    c.timestamp \o LE32(Len(key)) \o c.sizeBytes \o key
    \o c.value \o Zeros(c.valueSize - Len(c.value))

\* the cursor of the old log taken for the end of the temp file
TempCursorOfLog == file.pos

\* newOffset, _ := tempFile.Seek(0, io.SeekEnd)
TempEnd == Len(files[TempPath])

\* the body of Compact's range loop for one key of b.index; f names the call that
\* fails: none ("ok"), b.file.Seek ("seek"), the reads of the old log ("read") or
\* the writes to the temp file ("write")
CompactCopy(t, key, f) ==
    /\ pc[t] = "Compact_Copy"
    /\ key \in cTodo[t]
    /\ key \in DOMAIN index
    /\ f = "ok" \/ (file.open /\ faults < MaxFaults)
    /\ \E c \in {CopyRead(log, index[key], f # "read")} :
       IF ~file.open \/ f = "seek"
       THEN \* tempFile.Close(); os.Remove(tempPath); return err
            /\ exists' = exists \ {TempPath}
            /\ files' = [files EXCEPT ![TempPath] = << >>]
            /\ ret' = [ret EXCEPT ![t] = Err(IF file.open THEN "EIO" ELSE "ErrClosed")]
            /\ cFail' = [cFail EXCEPT ![t] = TRUE]
            /\ pc' = [pc EXCEPT ![t] = "Compact_Ret"]
            /\ UNCHANGED <<file, cNew, cTodo>>
       ELSE /\ c.valueSize <= MaxAlloc
            /\ file' = [file EXCEPT !.pos = c.pos]
            /\ files' = [files EXCEPT ![TempPath] =
                            IF f = "write" THEN @ ELSE @ \o CopyRecord(c, key)]
            /\ cNew' = [cNew EXCEPT ![t] =
                            IndexPut(@, key, TempEnd)]
            /\ cTodo' = [cTodo EXCEPT ![t] = @ \ {key}]
            /\ cFail' = [cFail EXCEPT ![t] = @ \/ c.short \/ f # "ok"]
            /\ UNCHANGED <<exists, ret, pc>>
    /\ faults' = IF f = "ok" \/ ~file.open THEN faults ELSE faults + 1
    /\ UNCHANGED <<index, mu, arg, loc, cOld, latest, loaded, closed,
                   overlapped>>

\* b.file.Close(); tempFile.Close()
CompactClose(t) ==
    /\ pc[t] = "Compact_Copy"
    /\ cTodo[t] = {}
    /\ file' = [file EXCEPT !.open = FALSE]
    /\ pc' = [pc EXCEPT ![t] = "Compact_Rename"]
    /\ UNCHANGED <<files, exists, index, mu, arg, loc, ret, cNew, cTodo, cOld, cFail,
                   latest, loaded, closed, overlapped, faults>>

\* os.Rename(tempPath, b.path)
CompactRename(t, ok) ==
    /\ pc[t] = "Compact_Rename"
    /\ ok \/ faults < MaxFaults
    /\ IF ok /\ TempPath \in exists
       THEN /\ files' = [files EXCEPT ![LogPath] = files[TempPath], ![TempPath] = << >>]
            /\ exists' = (exists \ {TempPath}) \cup {LogPath}
            /\ pc' = [pc EXCEPT ![t] = "Compact_Reopen"]
            /\ UNCHANGED ret
       ELSE /\ ret' = [ret EXCEPT ![t] = Err(IF ok THEN "ENOENT" ELSE "EIO")]
            /\ pc' = [pc EXCEPT ![t] = "Compact_Ret"]
            /\ UNCHANGED <<files, exists>>
    /\ faults' = IF ok THEN faults ELSE faults + 1
    /\ UNCHANGED <<file, index, mu, arg, loc, cNew, cTodo, cOld, cFail,
                   latest, loaded, closed, overlapped>>

\* newFile, err := os.OpenFile(b.path, O_CREATE|O_RDWR|O_APPEND); b.file = newFile;
\* b.index = newIndex
CompactReopen(t, ok) ==
    /\ pc[t] = "Compact_Reopen"
    /\ ok \/ faults < MaxFaults
    /\ IF ok
       THEN /\ file' = [open |-> TRUE, pos |-> 0, append |-> TRUE]
            /\ index' = cNew[t]
            /\ ret' = [ret EXCEPT ![t] = NoRet]
       ELSE /\ ret' = [ret EXCEPT ![t] = Err("EIO")]
            /\ UNCHANGED <<file, index>>
    /\ pc' = [pc EXCEPT ![t] = "Compact_Ret"]
    /\ faults' = IF ok THEN faults ELSE faults + 1
    /\ UNCHANGED <<files, exists, mu, arg, loc, cNew, cTodo, cOld, cFail,
                   latest, loaded, closed, overlapped>>

(***************************************************************************)
(* Open on the same path: after Close, or after the process died.          *)
(***************************************************************************)
\* an Open that comes back with the entries of the engine before it
OpenIndexKept == index

\* index: make(map[string]int64): Open reads nothing of the file
OpenIndex == EmptyIndex

\* the state Open(path) returns: the file as it is, an empty index, a free mutex
Opened ==
    /\ exists' = exists \cup {LogPath}
    /\ file' = [open |-> TRUE, pos |-> 0, append |-> FALSE]
    /\ index' = OpenIndex
    /\ mu' = [writer |-> None, readers |-> {}]
    /\ pc' = [t \in Threads |-> "idle"]
    /\ arg' = [t \in Threads |-> NoArg]
    /\ loc' = [t \in Threads |-> NoLoc]
    /\ ret' = [t \in Threads |-> NoRet]
    /\ cNew' = [t \in Threads |-> EmptyIndex]
    /\ cTodo' = [t \in Threads |-> {}]
    /\ cOld' = [t \in Threads |-> << >>]
    /\ cFail' = [t \in Threads |-> FALSE]
    /\ latest' = [k \in AllKeys |-> NoVal]
    /\ loaded' = FALSE
    /\ closed' = FALSE
    /\ overlapped' = [t \in Threads |-> FALSE]

\* db.Close() has returned and nothing is running: Open(path) again
Open ==
    /\ closed
    /\ \A t \in Threads : pc[t] = "idle"
    /\ Opened
    /\ UNCHANGED <<files, faults>>

\* the process dies while Set's Write has put only n bytes of the record in the
\* file; the next process opens the path
Crash(t, ts, n) ==
    LET buf == EncodeRecord(ts, arg[t].key, arg[t].value) IN
    /\ pc[t] = "Set_Write"
    /\ file.open
    /\ faults < MaxFaults
    /\ n \in TornCuts(buf)
    /\ files' = [files EXCEPT ![LogPath] = WriteAt(log, WritePos, SubSeq(buf, 1, n))]
    /\ faults' = faults + 1
    /\ Opened

(***************************************************************************)
(* Specifications                                                          *)
(***************************************************************************)
\* goroutine t calls a method of the engine
Calls(t) ==
    \/ CallSet(t)
    \/ CallGet(t)
    \/ CallKeys(t)
    \/ CallLoad(t)
    \/ CallCompact(t)
    \/ CallClose(t)

\* goroutine t gets the lock it is waiting for
Acquire(t) ==
    \/ \E k \in AllKeys, v \in AllValues : Lock(t, k, v)
    \/ \E k \in AllKeys : RLock(t, k)

\* a step of goroutine t inside its critical section, every I/O call succeeding
Proceed(t) ==
    \/ Unlock(t)
    \/ RUnlock(t)
    \/ SetSeek(t, TRUE)
    \/ \E ts \in Timestamps : SetWrite(t, ts, RecordSize(arg[t].key, arg[t].value))
    \/ SetIndex(t)
    \/ GetLookup(t)
    \/ GetHeader(t)
    \/ GetValue(t)
    \/ KeysRead(t)
    \/ CloseFile(t)
    \/ LoadSeek(t)
    \/ LoadScan(t)
    \/ CompactCreate(t, TRUE)
    \/ \E k \in DOMAIN index : CompactCopy(t, k, "ok")
    \/ CompactClose(t)
    \/ CompactRename(t, TRUE)
    \/ CompactReopen(t, TRUE)

\* a step of goroutine t with every I/O call succeeding
Normal(t) == Calls(t) \/ Acquire(t) \/ Proceed(t)

\* the calls of the operating system that can fail, failing
CopyFaults == {"seek", "read", "write"}

\* a step of goroutine t in which an I/O call fails or the process dies
Faulty(t) ==
    \/ SetSeek(t, FALSE)
    \/ \E ts \in Timestamps, n \in 0..(HeaderSize + 2) :
          n < RecordSize(arg[t].key, arg[t].value) /\ SetWrite(t, ts, n)
    \/ CompactCreate(t, FALSE)
    \/ \E k \in DOMAIN index, f \in CopyFaults : CompactCopy(t, k, f)
    \/ CompactRename(t, FALSE)
    \/ CompactReopen(t, FALSE)
    \/ \E ts \in Timestamps, n \in 0..(HeaderSize + 2) : Crash(t, ts, n)

\* the engine used by several goroutines at once, every I/O call succeeding
Next == (\E t \in Threads : Normal(t)) \/ Open

Spec == Init /\ [][Next]_vars

\* the engine used by one goroutine on a machine whose I/O calls can fail and whose
\* process can die in the middle of a write
FaultThreads == {"g1"}

NextFault == (\E t \in FaultThreads : Normal(t) \/ Faulty(t)) \/ Open

SpecFault == Init /\ [][NextFault]_vars


(***************************************************************************)
(* One engine from Open to the end of the process, under fair scheduling.  *)
(***************************************************************************)
\* what a set and a process that died in the write of a second record left in the
\* log: the first 10 bytes of the record
TornHeaderLog ==
    EncodeRecord(1, K0, V0) \o SubSeq(EncodeRecord(1, K1, V2), 1, 10)

\* the same, the record cut after its key
TornValueLog ==
    EncodeRecord(1, K0, V0) \o SubSeq(EncodeRecord(1, K1, V2), 1, HeaderSize + 1)

\* the contents of the log that Open finds
LiveLogs == {TornHeaderLog, TornValueLog}

InitLive ==
    /\ files \in {[p \in Paths |-> IF p = LogPath THEN l ELSE << >>] : l \in LiveLogs}
    /\ exists = {LogPath}
    /\ file = [open |-> TRUE, pos |-> 0, append |-> FALSE]
    /\ index = OpenIndex
    /\ mu = [writer |-> None, readers |-> {}]
    /\ pc = [t \in Threads |-> "idle"]
    /\ arg = [t \in Threads |-> NoArg]
    /\ loc = [t \in Threads |-> NoLoc]
    /\ ret = [t \in Threads |-> NoRet]
    /\ cNew = [t \in Threads |-> EmptyIndex]
    /\ cTodo = [t \in Threads |-> {}]
    /\ cOld = [t \in Threads |-> << >>]
    /\ cFail = [t \in Threads |-> FALSE]
    /\ latest = [k \in AllKeys |-> NoVal]
    /\ loaded = FALSE
    /\ closed = FALSE
    /\ overlapped = [t \in Threads |-> FALSE]
    /\ faults = 0

\* the first goroutine makes every call of the engine; the second one makes every
\* call but Get, and Keys is its call that takes the read lock
NextLive ==
    \/ Normal("g1")
    \/ CallSet("g2")
    \/ CallKeys("g2")
    \/ CallLoad("g2")
    \/ CallCompact("g2")
    \/ CallClose("g2")
    \/ Acquire("g2")
    \/ Proceed("g2")

\* goroutine t holds the mutex, for writing or for reading
Holding(t) == mu.writer = t \/ t \in mu.readers

\* every step inside a call is a step of a goroutine that holds the mutex
StepsHoldLock == \A t \in Threads : (ENABLED Proceed(t)) => Holding(t)

\* the scheduler runs every goroutine that can take a step (weak fairness of the
\* steps inside a call), and sync.RWMutex hands the lock to every waiter in the end:
\* a blocked Lock keeps new readers out and a starving waiter is served first
\* (strong fairness of the acquisitions)
Fairness ==
    \A t \in Threads : WF_vars(Holding(t) /\ Proceed(t)) /\ SF_vars(Acquire(t))

SpecLive == InitLive /\ [][NextLive]_vars /\ Fairness

(***************************************************************************)
(* The earlier revision of the engine: the log opened with O_APPEND, Get   *)
(* reading through the cursor of the shared handle.                        *)
(***************************************************************************)
OldGetPcs == {"OldGet_RLock", "OldGet_Lookup", "OldGet_Seek", "OldGet_Timestamp",
              "OldGet_KeySize", "OldGet_ValueSize", "OldGet_Skip", "OldGet_Value",
              "OldGet_Ret"}

\* Open of the earlier revision: O_CREATE|O_RDWR|O_APPEND, an empty index
InitOld ==
    /\ files = [p \in Paths |-> << >>]
    /\ exists = {LogPath}
    /\ file = [open |-> TRUE, pos |-> 0, append |-> TRUE]
    /\ index = EmptyIndex
    /\ mu = [writer |-> None, readers |-> {}]
    /\ pc = [t \in Threads |-> "idle"]
    /\ arg = [t \in Threads |-> NoArg]
    /\ loc = [t \in Threads |-> NoLoc]
    /\ ret = [t \in Threads |-> NoRet]
    /\ cNew = [t \in Threads |-> EmptyIndex]
    /\ cTodo = [t \in Threads |-> {}]
    /\ cOld = [t \in Threads |-> << >>]
    /\ cFail = [t \in Threads |-> FALSE]
    /\ latest = [k \in AllKeys |-> NoVal]
    /\ loaded = FALSE
    /\ closed = FALSE
    /\ overlapped = [t \in Threads |-> FALSE]
    /\ faults = 0

\* Set(key, value) of the earlier revision, every write succeeding: under the write
\* lock, which it takes when no reader and no writer holds the mutex and releases on
\* return, it seeks to the end, writes the five fields there and stores the offset
OldSet(t, ts, key, value) ==
    /\ pc[t] = "idle"
    /\ CanLock(t)
    /\ Records(log) < MaxRecords
    /\ files' = [files EXCEPT ![LogPath] = log \o EncodeRecord(ts, key, value)]
    /\ file' = [file EXCEPT !.pos = Len(log) + RecordSize(key, value)]
    /\ index' = IndexPut(index, key, SeekEnd)
    /\ latest' = [latest EXCEPT ![key] = value]
    /\ UNCHANGED <<exists, mu, pc, arg, loc, ret, cNew, cTodo, cOld, cFail, loaded,
                   closed, overlapped, faults>>

\* a goroutine calls Get of the earlier revision
CallOldGet(t) == Call(t, "OldGet_RLock")

\* b.mu.RLock()
OldGetRLock(t, k) ==
    /\ pc[t] = "OldGet_RLock"
    /\ CanRLock(t)
    /\ mu' = [mu EXCEPT !.readers = @ \cup {t}]
    /\ pc' = [pc EXCEPT ![t] = "OldGet_Lookup"]
    /\ arg' = [arg EXCEPT ![t] = [key |-> k, value |-> V0]]
    /\ UNCHANGED <<files, exists, file, index, loc, ret, cNew, cTodo, cOld, cFail,
                   latest, loaded, closed, overlapped, faults>>

\* offset, exists := b.index[key]
OldGetLookup(t) ==
    /\ pc[t] = "OldGet_Lookup"
    /\ IF arg[t].key \in DOMAIN index
       THEN /\ loc' = [loc EXCEPT ![t].offset = index[arg[t].key]]
            /\ pc' = [pc EXCEPT ![t] = "OldGet_Seek"]
            /\ UNCHANGED ret
       ELSE /\ ret' = [ret EXCEPT ![t] = Err(ErrKeyNotFound)]
            /\ pc' = [pc EXCEPT ![t] = "OldGet_Ret"]
            /\ UNCHANGED loc
    /\ UNCHANGED <<files, exists, file, index, mu, arg, cNew, cTodo, cOld, cFail,
                   latest, loaded, closed, overlapped, faults>>

\* b.file.Seek(offset, io.SeekStart): the cursor of the handle all goroutines share
OldGetSeek(t) ==
    /\ pc[t] = "OldGet_Seek"
    /\ file' = [file EXCEPT !.pos = loc[t].offset]
    /\ pc' = [pc EXCEPT ![t] = "OldGet_Timestamp"]
    /\ UNCHANGED <<files, exists, index, mu, arg, loc, ret, cNew, cTodo, cOld, cFail,
                   latest, loaded, closed, overlapped, faults>>

\* binary.Read(b.file, binary.LittleEndian, &timestamp / &keySize / &valueSize): n
\* bytes read at the cursor, which moves past what was read
OldGetField(t) ==
    LET n == IF pc[t] = "OldGet_Timestamp" THEN 8 ELSE 4
        r == ReadFull(log, file.pos, n)
    IN
    /\ pc[t] \in {"OldGet_Timestamp", "OldGet_KeySize", "OldGet_ValueSize"}
    /\ file' = [file EXCEPT !.pos = @ + r.n]
    /\ IF r.err # "nil"
       THEN /\ ret' = [ret EXCEPT ![t] = Err(r.err)]
            /\ pc' = [pc EXCEPT ![t] = "OldGet_Ret"]
            /\ UNCHANGED loc
       ELSE /\ loc' = [loc EXCEPT ![t] =
                        IF pc[t] = "OldGet_KeySize" THEN [@ EXCEPT !.keySize = Uint32(r.bytes)]
                        ELSE IF pc[t] = "OldGet_ValueSize"
                             THEN [@ EXCEPT !.valueSize = Uint32(r.bytes)]
                        ELSE @]
            /\ pc' = [pc EXCEPT ![t] =
                        IF pc[t] = "OldGet_Timestamp" THEN "OldGet_KeySize"
                        ELSE IF pc[t] = "OldGet_KeySize" THEN "OldGet_ValueSize"
                        ELSE "OldGet_Skip"]
            /\ UNCHANGED ret
    /\ UNCHANGED <<files, exists, index, mu, arg, cNew, cTodo, cOld, cFail,
                   latest, loaded, closed, overlapped, faults>>

\* b.file.Seek(int64(keySize), io.SeekCurrent)
OldGetSkip(t) ==
    /\ pc[t] = "OldGet_Skip"
    /\ file' = [file EXCEPT !.pos = @ + loc[t].keySize]
    /\ pc' = [pc EXCEPT ![t] = "OldGet_Value"]
    /\ UNCHANGED <<files, exists, index, mu, arg, loc, ret, cNew, cTodo, cOld, cFail,
                   latest, loaded, closed, overlapped, faults>>

\* io.ReadFull(b.file, valueBytes); return string(valueBytes), nil
OldGetValue(t) ==
    LET r == ReadFull(log, file.pos, loc[t].valueSize) IN
    /\ pc[t] = "OldGet_Value"
    /\ file' = [file EXCEPT !.pos = @ + r.n]
    /\ ret' = [ret EXCEPT ![t] = IF r.err = "nil"
                                 THEN [err |-> "nil", val |-> r.bytes, keys |-> {}]
                                 ELSE Err(r.err)]
    /\ pc' = [pc EXCEPT ![t] = "OldGet_Ret"]
    /\ UNCHANGED <<files, exists, index, mu, arg, loc, cNew, cTodo, cOld, cFail,
                   latest, loaded, closed, overlapped, faults>>

\* defer b.mu.RUnlock()
OldGetRUnlock(t) ==
    /\ pc[t] = "OldGet_Ret"
    /\ mu' = [mu EXCEPT !.readers = @ \ {t}]
    /\ Return(t)
    /\ UNCHANGED <<files, exists, file, index, latest, loaded, closed, faults>>

\* the earlier revision used by several goroutines that set keys and get them
NextOld ==
    \E t \in Threads :
        \/ \E ts \in Timestamps, k \in AllKeys, v \in AllValues : OldSet(t, ts, k, v)
        \/ CallOldGet(t)
        \/ \E k \in AllKeys : OldGetRLock(t, k)
        \/ OldGetLookup(t)
        \/ OldGetSeek(t)
        \/ OldGetField(t)
        \/ OldGetSkip(t)
        \/ OldGetValue(t)
        \/ OldGetRUnlock(t)

SpecOld == InitOld /\ [][NextOld]_vars

(***************************************************************************)
(* The log as a sequence of records, read off the bytes.                   *)
(***************************************************************************)
\* the little-endian 32-bit fields of the header at p: bytes 8..11 and 12..15
KeySizeAt(data, p) ==
    data[p + 9] + 256 * data[p + 10] + 65536 * data[p + 11] + 16777216 * data[p + 12]
ValueSizeAt(data, p) ==
    data[p + 13] + 256 * data[p + 14] + 65536 * data[p + 15] + 16777216 * data[p + 16]

\* a whole record lies at p: its header and the key and value bytes it declares
Complete(data, p) ==
    /\ Avail(data, p) >= HeaderSize
    /\ KeySizeAt(data, p) <= Avail(data, p) - HeaderSize
    /\ ValueSizeAt(data, p) <= Avail(data, p) - HeaderSize - KeySizeAt(data, p)

SizeAt(data, p) == HeaderSize + KeySizeAt(data, p) + ValueSizeAt(data, p)
KeyAt(data, p) == SubSeq(data, p + HeaderSize + 1, p + HeaderSize + KeySizeAt(data, p))
ValueAt(data, p) ==
    SubSeq(data, p + HeaderSize + KeySizeAt(data, p) + 1, p + SizeAt(data, p))

\* the offsets at which the complete records of data begin, from p on
RECURSIVE StartsFrom(_, _)
StartsFrom(data, p) ==
    IF p < Len(data) /\ Complete(data, p)
    THEN {p} \cup StartsFrom(data, p + SizeAt(data, p))
    ELSE {}

RecordStarts(data) == StartsFrom(data, 0)

\* data is a gap-free, overlap-free concatenation of complete records
RECURSIVE WellFormedFrom(_, _)
WellFormedFrom(data, p) ==
    \/ p = Len(data)
    \/ /\ p < Len(data)
       /\ Complete(data, p)
       /\ WellFormedFrom(data, p + SizeAt(data, p))

WellFormed(data) == WellFormedFrom(data, 0)

LogKeys(data) == {KeyAt(data, p) : p \in RecordStarts(data)}

MaxOf(S) == CHOOSE m \in S : \A x \in S : x <= m

\* for each key of the log, the offset of the last record with that key
LastOffsets(data) ==
    LET starts == RecordStarts(data) IN
    [k \in {KeyAt(data, p) : p \in starts} |->
        MaxOf({p \in starts : KeyAt(data, p) = k})]

\* the value of the last record of k in data
LastValue(data, k) ==
    ValueAt(data, MaxOf({p \in RecordStarts(data) : KeyAt(data, p) = k}))

WriterCritical ==
    {"Set_Seek", "Set_Write", "Set_Index", "Set_Ret", "Load_Seek", "Load_Scan",
     "Load_Ret", "Close_File", "Close_Ret"} \cup CompactCritical
GetCritical == {"Get_Lookup", "Get_Header", "Get_Value", "Get_Ret"}

\* between operations: no Set, Load, Compact or Close is in its critical section
Quiescent == \A t \in Threads : pc[t] \notin WriterCritical

\* the keys for which a Set has returned nil on this engine
setHere == {k \in AllKeys : latest[k] # NoVal}

(***************************************************************************)
(* Round trip, last write wins, the index as a function of the log,        *)
(* compaction.                                                             *)
(***************************************************************************)

\* C1: on an open engine, a Get(k) that comes after a Set(k, v) which returned nil on
\* this engine returns nil and exactly the value of the last such Set of k, whatever
\* Set, Load and Compact calls came before and whatever the other goroutine is doing;
\* a goroutine's own Set followed by its Get of the same key is the case where no
\* other goroutine wrote k in between.  Empty keys and empty values included.
RoundTrip ==
    \A t \in Threads :
        (pc[t] = "Get_Ret" /\ file.open /\ arg[t].key \in setHere)
            => /\ ret[t].err = "nil"
               /\ ret[t].val = latest[arg[t].key]

\* a Get of the empty key returns the two-byte value set on this engine while the
\* other goroutine is inside a call
RoundTripWitness ==
    \E t \in Threads :
        /\ pc[t] = "Get_Ret"
        /\ arg[t].key = K0
        /\ K0 \in setHere
        /\ ret[t] = [err |-> "nil", val |-> V2, keys |-> {}]
        /\ \E u \in Threads \ {t} : pc[u] # "idle"

\* the Get of a key set with the empty value on this engine returns the empty value
RoundTripEmptyValue ==
    \E t \in Threads :
        /\ pc[t] = "Get_Ret"
        /\ arg[t].key = K1
        /\ K1 \in setHere
        /\ latest[K1] = V0
        /\ ret[t] = NoRet

\* C2: last write wins, also across restarts: between operations the last record in
\* the log of every key set on this engine carries the value of the last Set of that
\* key that returned nil; Open leaves the log as it is; and on an engine that has
\* loaded the log (or has set the key itself) Get(k) of a key with records in the log
\* returns the value of the last record of k in the log.
LastWriteWins ==
    /\ Quiescent =>
          \A k \in setHere : k \in LogKeys(log) /\ LastValue(log, k) = latest[k]
    /\ \A t \in Threads :
          (/\ pc[t] = "Get_Ret"
           /\ file.open
           /\ loaded \/ arg[t].key \in setHere
           /\ arg[t].key \in LogKeys(log))
              => /\ ret[t].err = "nil"
                 /\ ret[t].val = LastValue(log, arg[t].key)

\* the log holds two records of k with different values, written by an earlier
\* engine; this engine has loaded the log and its Get(k) returns the later one
LastWriteWinsWitness ==
    \E t \in Threads :
        LET k == arg[t].key
            ps == {p \in RecordStarts(log) : KeyAt(log, p) = k}
        IN /\ pc[t] = "Get_Ret"
           /\ loaded
                  /\ Cardinality(ps) = 2
           /\ \E p \in ps, q \in ps :
                 p < q /\ ValueAt(log, p) # ValueAt(log, q) /\ ret[t].val = ValueAt(log, q)
           /\ ret[t].err = "nil"

\* C3: on an engine that has loaded the log, between operations, the index is the
\* mapping from each key of the log to the offset of its last record.
IndexDerivedFromLog ==
    (loaded /\ Quiescent) => (WellFormed(log) /\ index = LastOffsets(log))

\* after a Compact and a further Set on a loaded engine: two records, two keys
IndexDerivedWitness ==
    /\ loaded
    /\ Quiescent
    /\ file.append
    /\ Cardinality(RecordStarts(log)) = 2
    /\ DOMAIN index = {K0, K1}
    /\ Len(log) = file.pos

\* the sum of 16 + len(key) + len(value) over a set of <<key, value>> pairs
RECURSIVE SumSizes(_)
SumSizes(S) ==
    IF S = {} THEN 0
    ELSE LET k == CHOOSE x \in S : TRUE
         IN RecordSize(k[1], k[2]) + SumSizes(S \ {k})

\* C4: when Compact returns nil on a loaded engine, the index holds exactly the keys
\* the log had, Get of each returns its latest value, the new log is one complete
\* record per key, its size is the sum of 16 + len(key) + len(latest value), and that
\* is at most the size before.
CompactPreserves ==
    \A t \in Threads :
        (pc[t] = "Compact_Ret" /\ ret[t].err = "nil" /\ loaded)
            => /\ DOMAIN index = LogKeys(cOld[t])
               /\ \A k \in LogKeys(cOld[t]) :
                     /\ GetResult(k).err = "nil"
                     /\ GetResult(k).val = LastValue(cOld[t], k)
                     /\ k \in setHere => GetResult(k).val = latest[k]
                     /\ Cardinality({p \in RecordStarts(log) : KeyAt(log, p) = k}) = 1
               /\ WellFormed(log)
               /\ LogKeys(log) = LogKeys(cOld[t])
               /\ Len(log) = SumSizes({<<k, LastValue(cOld[t], k)>> : k \in LogKeys(cOld[t])})
               /\ Len(log) <= Len(cOld[t])

\* a Compact that dropped a superseded record: the log shrank
CompactPreservesWitness ==
    \E t \in Threads :
        /\ pc[t] = "Compact_Ret"
        /\ ret[t].err = "nil"
        /\ loaded
        /\ Cardinality(RecordStarts(cOld[t])) = 2
        /\ Cardinality(RecordStarts(log)) = 1
        /\ Len(log) < Len(cOld[t])
        /\ GetResult(K1).val = V2

\* a Compact of two keys
CompactTwoKeysWitness ==
    \E t \in Threads :
        /\ pc[t] = "Compact_Ret"
        /\ ret[t].err = "nil"
        /\ loaded
        /\ DOMAIN index = {K0, K1}
        /\ index[K1] = 0

(***************************************************************************)
(* Torn writes and failing I/O.                                            *)
(***************************************************************************)

\* C5: Load detects torn writes: a Load of a log that is not a concatenation of
\* complete records returns an error, and after a Load that returned nil every
\* index entry is the offset of a complete record.
LoadDetectsTornWrites ==
    \A t \in Threads :
        (pc[t] = "Load_Ret" /\ file.open)
            => /\ ~WellFormed(log) => ret[t].err # "nil"
               /\ ret[t].err = "nil" =>
                     \A k \in DOMAIN index : Complete(log, index[k])

\* C6: Compact is all-or-nothing before the rename: once a step before the rename has
\* failed, Compact does not go on to the rename; it returns an error with the log as
\* it was and the temp file removed.
CompactAllOrNothing ==
    \A t \in Threads :
        cFail[t] =>
            /\ pc[t] \notin {"Compact_Rename", "Compact_Reopen"}
            /\ pc[t] = "Compact_Ret" =>
                  /\ ret[t].err # "nil"
                  /\ log = cOld[t]
                  /\ TempPath \notin exists

(***************************************************************************)
(* Concurrency.                                                            *)
(***************************************************************************)
\* a goroutine that can observe the log and the index: inside Get, Keys or Load, or
\* inside Compact before it swaps the files
Observing(t) ==
    pc[t] \in GetCritical \cup {"Keys_Read", "Keys_Ret", "Load_Seek", "Load_Scan",
                                "Load_Ret", "Compact_Create", "Compact_Copy"}

\* C7: Set is atomic to the other operations: while a Set is between its seek and its
\* index update no other goroutine is inside Get, Keys, Load or Compact, and whenever
\* a goroutine is inside one of those, every index entry is the offset of a complete
\* record of its key.
SetAtomic ==
    /\ \A u \in Threads :
          pc[u] \in {"Set_Write", "Set_Index"} =>
              \A t \in Threads \ {u} : ~Observing(t) /\ pc[t] \notin CompactCritical
    /\ (\E t \in Threads : Observing(t)) =>
          \A k \in DOMAIN index :
              Complete(log, index[k]) /\ KeyAt(log, index[k]) = k

\* a Set has appended its record and not yet updated the index, while the other
\* goroutine has called Get and waits
SetAtomicWitness ==
    \E u \in Threads, t \in Threads :
        /\ pc[u] = "Set_Index"
        /\ Len(log) = loc[u].offset + RecordSize(arg[u].key, arg[u].value)
        /\ arg[u].key \notin DOMAIN index
        /\ pc[t] = "Get_RLock"

\* C8: concurrent writers: the offset a Set is about to store is the end of file at
\* which its record begins; between operations the log is a gap-free concatenation of
\* complete records, every key set on this engine is in the index at the offset of a
\* record of that key carrying its latest value, and Get returns that value.
ConcurrentWriters ==
    /\ \A t \in Threads :
          pc[t] = "Set_Index" =>
              /\ loc[t].offset \in RecordStarts(log)
              /\ loc[t].offset + RecordSize(arg[t].key, arg[t].value) = Len(log)
              /\ KeyAt(log, loc[t].offset) = arg[t].key
              /\ ValueAt(log, loc[t].offset) = arg[t].value
    /\ Quiescent =>
          /\ WellFormed(log)
          /\ \A k \in setHere :
                /\ k \in DOMAIN index
                /\ index[k] \in RecordStarts(log)
                /\ KeyAt(log, index[k]) = k
                /\ ValueAt(log, index[k]) = latest[k]
                /\ file.open => GetResult(k) = [err |-> "nil", val |-> latest[k], keys |-> {}]

\* a Set that overlapped the Set of another goroutine on a different key has stored
\* its offset: both records are in the log and both keys are in the index
ConcurrentWritersWitness ==
    \E t \in Threads :
        /\ pc[t] = "Set_Ret"
        /\ overlapped[t]
        /\ ret[t].err = "nil"
        /\ index[arg[t].key] > 0
        /\ setHere = {K0, K1}
        /\ DOMAIN index = {K0, K1}
        /\ Cardinality(RecordStarts(log)) = 2

\* C9: a Get that overlaps a Compact of another goroutine is never inside its
\* critical section while the Compact is inside its own, and on an open engine it
\* returns nil and the value of the last record of its key in the log, the same
\* before and after the compaction (or ErrKeyNotFound for a key that is not in the
\* index), never an I/O error or other bytes.
GetDuringCompact ==
    \A t \in Threads :
        /\ pc[t] \in GetCritical =>
              \A u \in Threads \ {t} : pc[u] \notin CompactCritical
        /\ (pc[t] = "Get_Ret" /\ overlapped[t] /\ file.open) =>
              \/ ret[t].err = "ErrKeyNotFound" /\ arg[t].key \notin DOMAIN index
              \/ /\ arg[t].key \in LogKeys(log)
                 /\ ret[t] = [err |-> "nil", val |-> LastValue(log, arg[t].key), keys |-> {}]
                 /\ arg[t].key \in setHere => ret[t].val = latest[arg[t].key]

\* a Get called while a Compact was running returns the value from the new file
GetDuringCompactWitness ==
    \E t \in Threads :
        /\ pc[t] = "Get_Ret"
        /\ overlapped[t]
        /\ file.open
        /\ file.append
        /\ ret[t] = [err |-> "nil", val |-> V2, keys |-> {}]
        /\ index[arg[t].key] > 0

(***************************************************************************)
(* Close.                                                                  *)
(***************************************************************************)
\* C10: closed is terminal: once Close has returned on an engine, no later step of
\* that engine changes the log file or the index or opens the file handle again, and
\* every Load, Set, Get or Compact that completes on it has an error as its result.
ClosedIsTerminal ==
    [][(closed /\ closed') =>
          /\ files'[LogPath] = files[LogPath]
          /\ index' = index
          /\ ~file'.open
          /\ \A t \in Threads :
                (pc'[t] \in {"Load_Ret", "Set_Ret", "Get_Ret", "Compact_Ret"}
                   /\ pc[t] # pc'[t]) => ret'[t].err # "nil"]_vars

(***************************************************************************)
(* Load again, unknown keys, failed calls.                                 *)
(***************************************************************************)
\* C11: Load is idempotent and restart-independent: the index a Load that returns nil
\* leaves is the function of the log's bytes that maps every key of the log to the
\* offset of its last record, whichever engine wrote the records, and a Load on an
\* engine that had loaded the log before leaves the index it found.
LoadIdempotent ==
    \A t \in Threads :
        (pc[t] = "Load_Ret" /\ ret[t].err = "nil")
            => /\ index = LastOffsets(log)
               /\ loc[t].wasLoaded => index = loc[t].before

\* a second Load of a log that holds two records of one key has returned
LoadIdempotentWitness ==
    \E t \in Threads :
        /\ pc[t] = "Load_Ret"
        /\ ret[t].err = "nil"
        /\ loc[t].wasLoaded
        /\ Cardinality(RecordStarts(log)) = 2
        /\ Cardinality(DOMAIN index) = 1

\* the first Load of an engine opened on a log that an earlier engine wrote
LoadAfterReopenWitness ==
    \E t \in Threads :
        /\ pc[t] = "Load_Ret"
        /\ ret[t].err = "nil"
        /\ ~loc[t].wasLoaded
        /\ setHere = {}
        /\ loc[t].before = EmptyIndex
        /\ DOMAIN index = {K0, K1}

\* C12: unknown key: the step of Get(k) that finds k absent from the index goes
\* straight to the return, with the KeyNotFound error and an empty value and without
\* a read of the file, and no step of that Get changes the index, the files or the
\* file handle.
UnknownKey ==
    [][\A t \in Threads :
          (/\ pc[t] \in {"Get_Lookup", "Get_Ret"}
           /\ pc'[t] # pc[t]
           /\ arg[t].key \notin DOMAIN index)
              => /\ index' = index
                 /\ files' = files
                 /\ file' = file
                 /\ pc[t] = "Get_Lookup" =>
                       /\ pc'[t] = "Get_Ret"
                       /\ ret'[t].err = "ErrKeyNotFound"
                       /\ ret'[t].val = << >>]_vars

\* Get of a key on a freshly created store, nothing written yet, is about to return
UnknownKeyWitness ==
    \E t \in Threads :
        /\ pc[t] = "Get_Ret"
        /\ ret[t].err = "ErrKeyNotFound"
        /\ log = << >>
        /\ index = EmptyIndex
        /\ ~loaded

\* Get of a key the index lacks while the index holds the other key
UnknownKeyOtherWitness ==
    \E t \in Threads :
        /\ pc[t] = "Get_Ret"
        /\ ret[t].err = "ErrKeyNotFound"
        /\ DOMAIN index = AllKeys \ {arg[t].key}

\* C13: Set failure leaves the index unchanged: the step in which the seek or the
\* write of a Set fails returns an error with the index exactly as it was when the
\* Set began, so that Get of every key that had a value still returns that value and
\* Get of every key that had none still returns KeyNotFound.
SetFailureKeepsIndex ==
    [][\A t \in Threads :
          (/\ pc[t] \in {"Set_Seek", "Set_Write"}
           /\ pc'[t] = "Set_Ret"
           /\ ret'[t].err # "nil")
              => /\ index' = index
                 /\ index' = loc[t].before
                 /\ \A k \in AllKeys :
                       GetResult(k).err \in {"nil", "ErrKeyNotFound"}
                          => GetResult(k)' = GetResult(k)]_vars

\* a Set of one key has failed in its write, leaving a part of its record at the end
\* of the log; the other key is still in the index, alone, and Get returns its value
SetFailureWitness ==
    \E t \in Threads :
        /\ pc[t] = "Set_Ret"
        /\ ret[t].err = "EIO"
        /\ ~WellFormed(log)
        /\ DOMAIN index = AllKeys \ {arg[t].key}
        /\ \A k \in DOMAIN index : GetResult(k) = [err |-> "nil", val |-> latest[k], keys |-> {}]

\* a Set has failed in its seek on an engine that holds a key
SetSeekFailureWitness ==
    \E t \in Threads :
        /\ pc[t] = "Set_Ret"
        /\ ret[t].err = "EIO"
        /\ WellFormed(log)
        /\ index # EmptyIndex
        /\ index = loc[t].before

\* an engine on which neither Load nor Set has run or is running since Open
Unscanned ==
    /\ ~loaded
    /\ setHere = {}
    /\ \A t \in Threads : pc[t] \notin {"Load_Scan", "Load_Ret", "Set_Index", "Set_Ret"}

\* on an engine that is Unscanned the index is empty, Keys returns no key and Get
\* returns KeyNotFound
UnscannedEmpty ==
    Unscanned =>
        /\ index = EmptyIndex
        /\ \A t \in Threads :
              /\ pc[t] = "Keys_Ret" => ret[t].keys = {}
              /\ pc[t] = "Get_Ret" => ret[t].err = "ErrKeyNotFound"

\* every key of the log is retrievable, with the value of its last record
LogRetrievable ==
    \A k \in LogKeys(log) :
        GetResult(k) = [err |-> "nil", val |-> LastValue(log, k), keys |-> {}]

\* C15: Open does not scan and does not alter an existing log: the step that opens
\* the path again leaves the content of the files as it is and the index empty, and
\* from then on, until Load or Set is called, Keys returns the empty set and Get of
\* every key returns KeyNotFound whatever the log holds; once the first Load of the
\* engine is through, every key of the log is retrievable.
OpenDoesNotScan ==
    [][/\ (closed /\ ~closed') => (files' = files /\ index' = EmptyIndex)
       /\ UnscannedEmpty
       /\ UnscannedEmpty'
       /\ (~loaded /\ loaded') => LogRetrievable']_vars

\* an engine opened on a log of two records has not called Load: its index is empty
\* and its Get of a key of the log is about to return KeyNotFound
OpenDoesNotScanWitness ==
    \E t \in Threads :
        /\ Unscanned
        /\ Cardinality(RecordStarts(log)) = 2
        /\ pc[t] = "Get_Ret"
        /\ arg[t].key \in LogKeys(log)
        /\ ret[t].err = "ErrKeyNotFound"

\* the same engine when its Load is about to return: the keys of the log are in the
\* index
OpenThenLoadWitness ==
    \E t \in Threads :
        /\ pc[t] = "Load_Ret"
        /\ loaded
        /\ ~loc[t].wasLoaded
        /\ setHere = {}
        /\ LogKeys(log) = AllKeys
        /\ DOMAIN index = AllKeys

\* the goroutines inside the critical section of Set, Load, Compact or Close, and
\* those inside the critical section of Get or Keys
Writers == {t \in Threads : pc[t] \in WriterCritical}
Readers == {t \in Threads : pc[t] \in GetCritical \cup {"Keys_Read", "Keys_Ret"}}

\* at most one writer is inside, it holds the write lock and no reader is inside
\* with it; the readers inside are the holders of the read lock
Exclusion ==
    /\ Cardinality(Writers) <= 1
    /\ Writers # {} => Readers = {}
    /\ \A t \in Writers : mu.writer = t
    /\ mu.readers = Readers
    /\ Writers = {} => mu.writer = None

\* C16: lock discipline: at most one of Set, Load, Compact, Close is inside its
\* critical section and no Get or Keys is inside while one is, and every step of an
\* engine that changes the file handle, the files or the index is taken while a
\* goroutine is inside as the writer, and no other goroutine moves in it.
LockDiscipline ==
    [][/\ Exclusion
       /\ Exclusion'
       /\ (file' # file \/ files' # files \/ index' # index) =>
             \/ closed /\ ~closed'
             \/ Writers # {} /\ \A u \in Threads \ Writers : pc'[u] = pc[u]]_vars

\* several readers are inside at once: a Get and a Keys hold the read lock together
LockDisciplineWitness ==
    /\ pc["g1"] = "Get_Header"
    /\ pc["g2"] = "Keys_Read"
    /\ mu.readers = {"g1", "g2"}
    /\ mu.writer = None

\* a Set is inside while a Get and nothing else waits for the lock
LockedOutWitness ==
    /\ pc["g1"] = "Set_Write"
    /\ pc["g2"] = "Get_RLock"
    /\ mu.writer = "g1"
    /\ mu.readers = {}

\* C17: every operation runs to completion: under fair scheduling every call a
\* goroutine has made returns, on its success path or on an error path, and the
\* goroutine then holds no lock.
RunsToCompletion ==
    \A t \in Threads :
        (pc[t] # "idle") ~> (pc[t] = "idle" /\ mu.writer # t /\ t \notin mu.readers)

\* the scan loop of Load has ended with an error on a log with a truncated tail, and
\* another goroutine waits for the lock
RunsToCompletionWitness ==
    \E t, u \in Threads :
        /\ pc[t] = "Load_Ret"
        /\ ret[t].err \notin {"nil", "ErrClosed"}
        /\ ~WellFormed(log)
        /\ pc[u] \in {"Set_Lock", "Get_RLock", "Compact_Lock"}

\* C18: a failed Load fails the whole load: when Load returns an error because of a
\* truncated record, the index is as it was when the call took the lock; no entry of
\* the records before the truncated one was added or changed.
FailedLoadKeepsIndex ==
    \A t \in Threads :
        (pc[t] = "Load_Ret" /\ ret[t].err \in {"EOF", "ErrUnexpectedEOF"})
            => index = loc[t].before

\* C19: compaction never loses committed data: without I/O failures, when Compact
\* returns nil, every key that had a record in the log when the Compact began has a
\* record in the log now, and its last record carries the value its last record
\* carried then, whether or not Load was called after Open.
CompactKeepsCommitted ==
    \A t \in Threads :
        (pc[t] = "Compact_Ret" /\ ret[t].err = "nil")
            => \A k \in LogKeys(cOld[t]) :
                   /\ k \in LogKeys(log)
                   /\ LastValue(log, k) = LastValue(cOld[t], k)

\* C20: the engine stays usable after a failed Compact: when Compact returns an error
\* on an engine that was not closed, the engine holds an open handle to the log, so
\* that a following Set succeeds, and Get of every indexed key returns nil and the
\* latest value of the key.
UsableAfterFailedCompact ==
    \A t \in Threads :
        (pc[t] = "Compact_Ret" /\ ret[t].err # "nil" /\ ~closed)
            => /\ file.open
               /\ \A k \in DOMAIN index :
                     /\ GetResult(k).err = "nil"
                     /\ k \in setHere => GetResult(k).val = latest[k]

(***************************************************************************)
(* The earlier revision.                                                   *)
(***************************************************************************)
\* C14: thread-safety of reads in the seek-based revision: every Get of a key that
\* was set before, whatever other Get calls run at the same time, returns nil and the
\* latest value of its key.
OldGetThreadSafe ==
    \A t \in Threads :
        (pc[t] = "OldGet_Ret" /\ arg[t].key \in setHere)
            => /\ ret[t].err = "nil"
               /\ ret[t].val = latest[arg[t].key]

====
